---- MODULE Spec2Model ----
(***************************************************************************)
(* Model of python_scripts/mp_pipeline.py: one run of execute_script, i.e. *)
(* html_to_dataframe -> process_data -> upload_to_mysql inside             *)
(* run_pipeline, followed by the Healthchecks ping.  The web server, the   *)
(* MySQL server and the monitoring service are the environment: each call  *)
(* to them draws its outcome from a small set.                             *)
(***************************************************************************)
EXTENDS Integers, Sequences, FiniteSets, TLC

\* Largest number of JSON objects in the JSON island of a fetched page.
MaxRecords == 3

(***************************************************************************)
(* Values and batches.  A JSON object is a sequence of <<key, value>>      *)
(* pairs (key order matters to pandas).  A DataFrame is a sequence of      *)
(* column names and a sequence of rows, each row a sequence of cell values *)
(* aligned with the columns.                                               *)
(***************************************************************************)
\* JSON null, kept as None in an object column.
None == "<None>"
\* The filler pandas puts in a cell whose key is absent from the record.
NaN == "<NaN>"

HEALTHCHECKS_URL == "https://hc.example.com/ping/<unique-id>"

\* pd.DataFrame()
EmptyDataFrame == [columns |-> <<>>, rows |-> <<>>]

\* DataFrame.empty: any axis of length 0
empty(df) == Len(df.columns) = 0 \/ Len(df.rows) = 0

\* pandas.isna on one cell
isna(v) == v \in {None, NaN}

new_names ==
    [i |-> "ID", n |-> "Nombre", a |-> "Apellido",
     d |-> "Departamento/Facultad", m |-> "# de calif.", c |-> "Promedio"]

Range(s) == {s[k] : k \in DOMAIN s}

\* keys of one JSON object, in order
Keys(rec) == [k \in DOMAIN rec |-> rec[k][1]]

\* value of key in a JSON object, NaN when the key is absent
Lookup(rec, key) ==
    IF \E k \in DOMAIN rec : rec[k][1] = key
    THEN rec[CHOOSE k \in DOMAIN rec : rec[k][1] = key][2]
    ELSE NaN

RECURSIVE AppendNew(_, _)
\* cols followed by the keys of ks not yet in it, in order of appearance
AppendNew(cols, ks) ==
    IF ks = <<>> THEN cols
    ELSE AppendNew(IF Head(ks) \in Range(cols) THEN cols ELSE Append(cols, Head(ks)),
                   Tail(ks))

RECURSIVE UnionColumns(_, _)
\* the columns of a list of JSON objects: every key, by first appearance
UnionColumns(cols, recs) ==
    IF recs = <<>> THEN cols
    ELSE UnionColumns(AppendNew(cols, Keys(Head(recs))), Tail(recs))

\* pd.json_normalize on a list of flat JSON objects
json_normalize(recs) ==
    LET cols == UnionColumns(<<>>, recs)
    IN  [columns |-> cols,
         rows |-> [r \in DOMAIN recs |->
                     [c \in DOMAIN cols |-> Lookup(recs[r], cols[c])]]]

\* DataFrame.rename(columns=new_names)
rename(df) ==
    [columns |-> [c \in DOMAIN df.columns |->
                    IF df.columns[c] \in DOMAIN new_names
                    THEN new_names[df.columns[c]]
                    ELSE df.columns[c]],
     rows |-> df.rows]

RECURSIVE DropRows(_)
DropRows(rows) ==
    IF rows = <<>> THEN <<>>
    ELSE IF \E c \in DOMAIN Head(rows) : isna(Head(rows)[c])
         THEN DropRows(Tail(rows))
         ELSE <<Head(rows)>> \o DropRows(Tail(rows))

\* dropna taking the empty string for a missing value as well
dropna_empty_strings(df) ==
    [columns |-> df.columns,
     rows |-> SelectSeq(df.rows,
                        LAMBDA row : \A c \in DOMAIN row : ~isna(row[c]) /\ row[c] # "")]

\* DataFrame.dropna(): drop every row that has an NA cell
dropna(df) == [columns |-> df.columns, rows |-> DropRows(df.rows)]

\* process_data, lines 63-74: rename and dropna do not raise on a DataFrame,
\* so the handler of lines 75-77 is never entered
process_data(df) == dropna(rename(df))

\* the failure URL without its suffix
error_url_no_suffix(healthchecks_url) == healthchecks_url

\* f"{healthchecks_url}/fail"
error_url(healthchecks_url) == healthchecks_url \o "/fail"

(***************************************************************************)
(* Inputs.                                                                 *)
(***************************************************************************)
Rec(i, n, a, d, m, c) ==
    <<<<"i", i>>, <<"n", n>>, <<"a", a>>, <<"d", d>>, <<"m", m>>, <<"c", c>>>>

Ana == Rec("1", "Ana", "Lopez", "Math", "10", "9.5")
Luis == Rec("2", "Luis", "Garza", "Physics", "7", "8.1")
\* an empty-string value
EmptyC == Rec("3", "Eva", "Ruiz", "Math", "4", "")
\* a JSON null value
NullD == Rec("4", "Raul", "Cantu", None, "2", "6.3")
\* a record without the key d
NoD == <<<<"i", "5">>, <<"n", "Sara">>, <<"a", "Mata">>, <<"m", "3">>, <<"c", "7.0">>>>

RecordSet == {Ana, Luis, EmptyC, NullD, NoD}

RecordLists == UNION {[1..k -> RecordSet] : k \in 1..MaxRecords}

\* What the regular expression and json.loads make of the fetched page.
Pages ==
    {[kind |-> "nomatch", records |-> <<>>], [kind |-> "badjson", records |-> <<>>]}
    \cup {[kind |-> "json", records |-> rs] : rs \in RecordLists}

\* Outcome of one HTTP GET: 2xx, a non-2xx status, or no response at all.
HttpOutcomes == {"ok", "status_error", "network_error"}

\* Outcome of one call to the MySQL driver: success, a mysql Error with the
\* connection still alive, or a mysql Error with the connection gone.  For
\* connect, "lost" is a connection returned whose is_connected() of line 102
\* answers False.
DbOutcomes == {"ok", "error", "lost"}

(***************************************************************************)
(* html_to_dataframe as a function of what the environment returned.       *)
(***************************************************************************)
html_to_dataframe(http, page) ==
    IF http # "ok"
    THEN [exc |-> "none", df |-> EmptyDataFrame,
          log |-> <<"ERROR Failed to fetch HTML content">>]
    ELSE IF page.kind = "nomatch"
    THEN [exc |-> "none", df |-> EmptyDataFrame,
          log |-> <<"ERROR Failed to extract JSON from the HTML content.">>]
    ELSE IF page.kind = "badjson"
    THEN [exc |-> "JSONDecodeError", df |-> EmptyDataFrame, log |-> <<>>]
    ELSE [exc |-> "none", df |-> json_normalize(page.records), log |-> <<>>]

(***************************************************************************)
(* State.                                                                  *)
(***************************************************************************)
VARIABLES
    pc,            \* position of the run
    df,            \* run_pipeline: df
    df_processed,  \* run_pipeline: df_processed
    connection,    \* upload_to_mysql: connection
    cursor,        \* upload_to_mysql: cursor
    table,         \* rows committed to the target table
    log,           \* lines written to the log file
    pings,         \* URLs requested from the monitoring service, in order
    exc,           \* the exception being propagated, "none" if none
    calls,         \* stages entered so far, in order
    outcome        \* how each stage ended

vars == <<pc, df, df_processed, connection, cursor, table, log, pings, exc,
          calls, outcome>>

Init ==
    /\ pc = "start"
    /\ df = EmptyDataFrame
    /\ df_processed = EmptyDataFrame
    /\ connection = "unbound"
    /\ cursor = "unbound"
    /\ table = <<>>
    /\ log = <<>>
    /\ pings = <<>>
    /\ exc = "none"
    /\ calls = <<>>
    /\ outcome = [fetch |-> "none", normalize |-> "none", load |-> "none",
                  loadError |-> "none", pipeline |-> "none", script |-> "none"]

\* execute_script, lines 173-177: log and enter run_pipeline
ExecuteStart ==
    /\ pc = "start"
    /\ log' = Append(log, "INFO Starting the cron job task...")
    /\ pc' = "fetch"
    /\ UNCHANGED <<df, df_processed, connection, cursor, table, pings, exc,
                   calls, outcome>>

\* run_pipeline, line 147
RunPipelineFetch ==
    /\ pc = "fetch"
    /\ \E http \in HttpOutcomes, page \in Pages :
         LET r == html_to_dataframe(http, page) IN
         /\ calls' = Append(calls, "fetch")
         /\ log' = log \o r.log
         /\ IF r.exc = "none"
            THEN /\ df' = r.df
                 /\ exc' = exc
                 /\ pc' = "fetched"
                 /\ outcome' = [outcome EXCEPT !.fetch = "returned"]
            ELSE /\ df' = df
                 /\ exc' = r.exc
                 /\ pc' = "except"
                 /\ outcome' = [outcome EXCEPT !.fetch = "raised", !.pipeline = "raised"]
    /\ UNCHANGED <<df_processed, connection, cursor, table, pings>>

\* run_pipeline without the test of line 148: the batch is processed and
\* uploaded whether or not it is empty
RunPipelineProcessAlways ==
    /\ pc = "fetched"
    /\ calls' = Append(calls, "normalize")
    /\ df_processed' = process_data(df)
    /\ log' = Append(log, "INFO Processed data")
    /\ outcome' = [outcome EXCEPT !.normalize = "returned"]
    /\ pc' = "connect"
    /\ UNCHANGED <<df, connection, cursor, table, pings, exc>>

\* run_pipeline, lines 148-150, with process_data (lines 71-74)
RunPipelineProcess ==
    /\ pc = "fetched"
    /\ ~empty(df)
    /\ calls' = Append(calls, "normalize")
    /\ df_processed' = process_data(df)
    /\ log' = Append(log, "INFO Processed data")
    /\ outcome' = [outcome EXCEPT !.normalize = "returned"]
    /\ pc' = "connect"
    /\ UNCHANGED <<df, connection, cursor, table, pings, exc>>

\* run_pipeline, lines 154-155
RunPipelineSkip ==
    /\ pc = "fetched"
    /\ empty(df)
    /\ log' = Append(log, "WARNING No data to process.")
    /\ pc' = "ping"
    /\ outcome' = [outcome EXCEPT !.pipeline = "returned"]
    /\ UNCHANGED <<df, df_processed, connection, cursor, table, pings, exc, calls>>

\* upload_to_mysql, lines 95-103
UploadConnect ==
    /\ pc = "connect"
    /\ calls' = Append(calls, "load")
    /\ \E o \in DbOutcomes :
         CASE o = "ok" ->
                /\ connection' = "connected"
                /\ log' = Append(log, "INFO Connected to MySQL database.")
                /\ pc' = "cursor"
                /\ outcome' = outcome
           [] o = "lost" ->
                /\ connection' = "lost"
                /\ log' = log
                /\ pc' = "finally"
                /\ outcome' = outcome
           [] o = "error" ->
                /\ connection' = connection
                /\ log' = log
                /\ pc' = "handler"
                /\ outcome' = [outcome EXCEPT !.loadError = "connect"]
    /\ UNCHANGED <<df, df_processed, cursor, table, pings, exc>>

\* a call to the driver raised mysql.connector.Error: control passes to the
\* except clause of line 121
DriverError(o, stage) ==
    /\ connection' = IF o = "lost" THEN "lost" ELSE connection
    /\ pc' = "handler"
    /\ outcome' = [outcome EXCEPT !.loadError = stage]

\* upload_to_mysql, line 106
UploadCursor ==
    /\ pc = "cursor"
    /\ \E o \in DbOutcomes :
         IF o = "ok"
         THEN /\ cursor' = "open"
              /\ pc' = "insert"
              /\ UNCHANGED <<connection, outcome>>
         ELSE /\ cursor' = cursor
              /\ DriverError(o, "cursor")
    /\ UNCHANGED <<df, df_processed, table, log, pings, exc, calls>>

\* upload_to_mysql, lines 109-116
UploadExecutemany ==
    /\ pc = "insert"
    /\ \E o \in DbOutcomes :
         IF o = "ok"
         THEN /\ pc' = "commit"
              /\ UNCHANGED <<connection, outcome>>
         ELSE DriverError(o, "insert")
    /\ UNCHANGED <<df, df_processed, cursor, table, log, pings, exc, calls>>

\* upload_to_mysql, lines 117-119
UploadCommit ==
    /\ pc = "commit"
    /\ \E o \in DbOutcomes :
         IF o = "ok"
         THEN /\ table' = table \o df_processed.rows
              /\ log' = Append(log, "INFO Inserted rows")
              /\ pc' = "finally"
              /\ UNCHANGED <<connection, outcome>>
         ELSE /\ DriverError(o, "commit")
              /\ UNCHANGED <<table, log>>
    /\ UNCHANGED <<df, df_processed, cursor, pings, exc, calls>>

\* upload_to_mysql, lines 121-122
UploadExcept ==
    /\ pc = "handler"
    /\ log' = Append(log, "ERROR Error while connecting to MySQL")
    /\ pc' = "finally"
    /\ UNCHANGED <<df, df_processed, connection, cursor, table, pings, exc,
                   calls, outcome>>

\* upload_to_mysql, lines 123-127.  connection.is_connected() of line 124 is
\* a call to the driver with an answer of its own, whatever the earlier
\* calls answered.
UploadFinally ==
    /\ pc = "finally"
    /\ IF connection = "unbound"
       THEN \* line 124 reads a name that was never bound
            /\ exc' = "UnboundLocalError"
            /\ pc' = "except"
            /\ outcome' = [outcome EXCEPT !.load = "raised", !.pipeline = "raised"]
            /\ UNCHANGED <<connection, cursor, log>>
       ELSE \E is_connected \in BOOLEAN :
            IF is_connected
            THEN IF cursor = "unbound"
                 THEN \* line 125 reads a name that was never bound
                      /\ connection' = "connected"
                      /\ exc' = "UnboundLocalError"
                      /\ pc' = "except"
                      /\ outcome' = [outcome EXCEPT !.load = "raised",
                                                     !.pipeline = "raised"]
                      /\ UNCHANGED <<cursor, log>>
                 ELSE /\ cursor' = "closed"
                      /\ connection' = "closed"
                      /\ log' = Append(log, "INFO MySQL connection closed.")
                      /\ pc' = "ping"
                      /\ outcome' = [outcome EXCEPT !.load = "returned",
                                                     !.pipeline = "returned"]
                      /\ exc' = exc
            ELSE \* nothing is closed
                 /\ connection' = "lost"
                 /\ pc' = "ping"
                 /\ outcome' = [outcome EXCEPT !.load = "returned",
                                                !.pipeline = "returned"]
                 /\ UNCHANGED <<cursor, log, exc>>
    /\ UNCHANGED <<df, df_processed, table, pings, calls>>

\* execute_script, lines 180-182
SuccessPing ==
    /\ pc = "ping"
    /\ calls' = Append(calls, "ping")
    /\ pings' = Append(pings, HEALTHCHECKS_URL)
    /\ \E o \in HttpOutcomes :
         CASE o = "ok" ->
                /\ log' = Append(log, "INFO Healthchecks ping successful!")
                /\ pc' = "done"
                /\ exc' = exc
                /\ outcome' = [outcome EXCEPT !.script = "returned"]
           [] o = "status_error" ->
                /\ exc' = "HTTPError"
                /\ pc' = "except"
                /\ UNCHANGED <<log, outcome>>
           [] o = "network_error" ->
                /\ exc' = "ConnectionError"
                /\ pc' = "except"
                /\ UNCHANGED <<log, outcome>>
    /\ UNCHANGED <<df, df_processed, connection, cursor, table>>

\* execute_script, lines 184-188
FailPing ==
    /\ pc = "except"
    /\ calls' = Append(calls, "ping_fail")
    /\ pings' = Append(pings, error_url(HEALTHCHECKS_URL))
    /\ \E o \in HttpOutcomes :
         IF o = "network_error"
         THEN \* requests.get raises inside the handler: nothing catches it
              /\ exc' = "ConnectionError"
              /\ pc' = "crashed"
              /\ log' = log
              /\ outcome' = [outcome EXCEPT !.script = "raised"]
         ELSE /\ log' = Append(log, "ERROR Healthchecks ping failed")
              /\ exc' = "none"
              /\ pc' = "done"
              /\ outcome' = [outcome EXCEPT !.script = "returned"]
    /\ UNCHANGED <<df, df_processed, connection, cursor, table>>

Next ==
    \/ ExecuteStart
    \/ RunPipelineFetch
    \/ RunPipelineProcess
    \/ RunPipelineSkip
    \/ UploadConnect
    \/ UploadCursor
    \/ UploadExecutemany
    \/ UploadCommit
    \/ UploadExcept
    \/ UploadFinally
    \/ SuccessPing
    \/ FailPing

Spec == Init /\ [][Next]_vars

Terminated == pc \in {"done", "crashed"}

(***************************************************************************)
(* Properties.                                                             *)
(***************************************************************************)
SuccessUrl == "https://hc.example.com/ping/<unique-id>"
FailUrl == "https://hc.example.com/ping/<unique-id>/fail"

Count(s, x) == Cardinality({k \in DOMAIN s : s[k] = x})

\* C1: when execute_script has ended, exactly one GET went to the monitoring
\* service (the success URL or the /fail URL, never both, never neither),
\* and at no time more than one.
C1_ExactlyOnePing ==
    /\ Len(pings) <= 1
    /\ Terminated => Len(pings) = 1

\* C2: the Loader is never entered with an empty normalized batch; an empty
\* normalized batch ends in the skipped path: no Loader call, no connection
\* opened, and the success ping.
C2_NoLoadOfEmptyBatch ==
    /\ "load" \in Range(calls) => Len(df_processed.rows) > 0
    /\ (Terminated /\ outcome.normalize # "none" /\ Len(df_processed.rows) = 0)
          => /\ "load" \notin Range(calls)
             /\ connection = "unbound"
             /\ pings = <<SuccessUrl>>

\* C3: html_to_dataframe never raises: after the fetch, run_pipeline goes on
\* with a batch and no exception is being propagated out of the Extractor.
C3_ExtractorNeverRaises ==
    "fetch" \in Range(calls) => outcome.fetch = "returned"

\* C4: no exception leaves upload_to_mysql, whichever driver call failed.
C4_LoaderNeverRaises ==
    outcome.load # "raised"

\* C5: when upload_to_mysql has exited, no connection and no cursor it
\* opened is still open, and its cleanup read no connection or cursor that
\* was never created.
C5_ConnectionScoped ==
    (outcome.load # "none")
       => /\ connection # "connected"
          /\ cursor # "open"
          /\ exc # "UnboundLocalError"

\* C6: a run whose Loader failed at connect time or during the insert ends
\* with the /fail ping alone, and with no connection left open.
C6_LoadFailureReported ==
    (Terminated /\ outcome.loadError \in {"connect", "insert"})
       => /\ pings = <<FailUrl>>
          /\ connection # "connected"

\* C7: no exception of a ping request leaves execute_script: the run ends
\* by returning normally whatever the two ping requests did.
C7_PingBestEffort ==
    pc # "crashed" /\ outcome.script # "raised"

\* C8: once run_pipeline has returned and the runner has moved on, the first
\* GET went to the success URL; once an exception has left run_pipeline, the
\* success URL is never requested, the handler is entered at most once, and
\* when it has run the only GET is the one to the success URL + "/fail".
C8_PingFollowsPipeline ==
    /\ (outcome.pipeline = "returned" /\ pc # "ping")
          => (pings # <<>> /\ pings[1] = SuccessUrl)
    /\ (outcome.pipeline = "raised")
          => /\ SuccessUrl \notin Range(pings)
             /\ pc # "except" => pings = <<FailUrl>>
    /\ Count(calls, "ping_fail") <= 1
    /\ Range(pings) \subseteq {SuccessUrl, FailUrl}

\* a run in which an exception left run_pipeline and the /fail ping was sent
C8_Witness ==
    /\ Terminated
    /\ outcome.pipeline = "raised"
    /\ exc = "none"
    /\ pings = <<FailUrl>>

CanonicalName(col) ==
    CASE col = "i" -> "ID"
      [] col = "n" -> "Nombre"
      [] col = "a" -> "Apellido"
      [] col = "d" -> "Departamento/Facultad"
      [] col = "m" -> "# de calif."
      [] col = "c" -> "Promedio"
      [] OTHER -> col

NoMissing(row) == \A c \in DOMAIN row : row[c] \notin {None, NaN}
NoMissingNoEmpty(row) == \A c \in DOMAIN row : row[c] \notin {None, NaN, ""}

Renamed(before, after) ==
    /\ Len(after.columns) = Len(before.columns)
    /\ \A c \in DOMAIN before.columns :
          after.columns[c] = CanonicalName(before.columns[c])

\* C9 as stated: process_data returns, under the canonical column names and
\* in input order, exactly the rows with no missing and no empty value.
C9_DropsMissingAndEmpty ==
    outcome.normalize = "returned"
       => /\ Renamed(df, df_processed)
          /\ df_processed.rows = SelectSeq(df.rows, NoMissingNoEmpty)

\* C9 amended: when rename and dropna complete, process_data returns, under
\* the canonical column names and in input order, exactly the rows with no
\* missing value (None or NaN) in any column; a row whose only defect is an
\* empty string is kept.
C9_DropsMissingOnly ==
    outcome.normalize = "returned"
       => /\ Renamed(df, df_processed)
          /\ df_processed.rows = SelectSeq(df.rows, NoMissing)

\* process_data has dropped a row with a missing value and kept two rows,
\* one of them with an empty string
C9_Witness ==
    /\ outcome.normalize = "returned"
    /\ Len(df_processed.rows) = 2
    /\ Len(df.rows) = 3
    /\ \E r \in DOMAIN df_processed.rows :
          \E c \in DOMAIN df_processed.rows[r] : df_processed.rows[r][c] = ""

\* The order of the stages of one run: the fetch first, the Normalizer right
\* after a fetch that returned, the Loader right after the Normalizer, the
\* pings after run_pipeline has ended and nothing after them; fetch,
\* normalize and load at most once each.
StageOrder ==
    /\ calls # <<>> => calls[1] = "fetch"
    /\ \A s \in {"fetch", "normalize", "load"} : Count(calls, s) <= 1
    /\ \A k \in DOMAIN calls :
          /\ calls[k] = "normalize"
                => (k = 2 /\ calls[1] = "fetch" /\ outcome.fetch = "returned")
          /\ calls[k] = "load"
                => (k = 3 /\ calls[2] = "normalize" /\ outcome.normalize # "none")
          /\ calls[k] \in {"ping", "ping_fail"}
                => /\ outcome.pipeline # "none"
                   /\ \A j \in DOMAIN calls :
                         j > k => calls[j] \in {"ping", "ping_fail"}

\* C10 as stated: the stage order, and the Normalizer runs after every fetch
\* that returned, an empty fetched batch included.
C10_NormalizerAlwaysRuns ==
    /\ StageOrder
    /\ (outcome.fetch = "returned" /\ pc # "fetched")
          => "normalize" \in Range(calls)

\* C10 amended: the stage order, and the Normalizer runs after a fetch that
\* returned exactly when the fetched batch is not empty: an empty fetched
\* batch skips the Normalizer and the Loader.
C10_SinglePass ==
    /\ StageOrder
    /\ (outcome.fetch = "returned" /\ pc # "fetched")
          => ("normalize" \in Range(calls) <=> Len(df.rows) > 0)
    /\ "load" \in Range(calls) => Len(df.rows) > 0

\* a complete pass: fetch, normalize, load, then the ping
C10_Witness ==
    /\ Terminated
    /\ calls = <<"fetch", "normalize", "load", "ping">>
    /\ Len(table) > 0

====
